---- MODULE Spec2Model ----
(***************************************************************************)
(* The GraphQL resource-name extractor of trafico (src/main.go).           *)
(*                                                                         *)
(* A text is a sequence of one-character strings.  Positions are 1-based   *)
(* here and 0-based in the Go source; a Go slice s[a:b] is                 *)
(* SubSeq(s, a+1, b).  Every regular expression of the source is written   *)
(* as the matcher Go's leftmost-first engine computes for it.              *)
(***************************************************************************)
EXTENDS Integers, Sequences, FiniteSets, TLC

VARIABLES
  g,          \* the plugin instance built by New: its two header names
  req,        \* the incoming request of ServeHTTP
  fwd,        \* the requests handed to g.next.ServeHTTP, in call order
  graphqlReq, \* graphqlReq.Query, the text handed to extractResourceNames (line 92)
  queries,    \* local `queries` of ServeHTTP (line 92)
  mutations,  \* local `mutations` of ServeHTTP (line 92)
  parsed,     \* the calls of parseRootFields made for the request, in call order
  pc,         \* "received" | "skipped" | "extracted" | "idle"
  bquery,     \* extractBalancedBlock: parameter query
  bstartPos,  \* extractBalancedBlock: parameter startPos (1-based)
  bstart,     \* extractBalancedBlock: local start (position of the first brace)
  bi,         \* extractBalancedBlock: loop index i
  bscan,      \* extractBalancedBlock: locals braceCount, inString, escaped
  bresult,    \* extractBalancedBlock: the returned text
  bpc,        \* "find" | "scan" | "done" | "idle"
  plainDoc,   \* a document
  commentDoc, \* the same document with comment lines inserted
  plainRes,   \* extractResourceNames(plainDoc)
  commentRes, \* extractResourceNames(commentDoc)
  cpc         \* "plain" | "commented" | "done" | "idle"

vars == <<g, req, fwd, graphqlReq, queries, mutations, parsed, pc,
          bquery, bstartPos, bstart, bi, bscan, bresult, bpc,
          plainDoc, commentDoc, plainRes, commentRes, cpc>>

httpVars == <<g, req, fwd, graphqlReq, queries, mutations, parsed, pc>>
balanceVars == <<bquery, bstartPos, bstart, bi, bscan, bresult, bpc>>
commentVars == <<plainDoc, commentDoc, plainRes, commentRes, cpc>>

----------------------------------------------------------------------------
(* Characters *)

LowerLetters ==
  <<"a","b","c","d","e","f","g","h","i","j","k","l","m",
    "n","o","p","q","r","s","t","u","v","w","x","y","z">>

UpperLetters ==
  <<"A","B","C","D","E","F","G","H","I","J","K","L","M",
    "N","O","P","Q","R","S","T","U","V","W","X","Y","Z">>

DigitChars == {"0","1","2","3","4","5","6","7","8","9"}

\* regexp \w is [0-9A-Za-z_]
IsWord(c) ==
  \/ c \in DigitChars
  \/ c = "_"
  \/ \E k \in 1..26 : c = LowerLetters[k] \/ c = UpperLetters[k]

\* regexp \s is [\t\n\f\r ]; strings.TrimSpace trims the same ASCII characters
IsSpace(c) == c \in {" ", "\t", "\n", "\f", "\r"}

\* strings.ToLower on one ASCII character
ToLowerChar(c) ==
  IF \E k \in 1..26 : c = UpperLetters[k]
  THEN LowerLetters[CHOOSE k \in 1..26 : c = UpperLetters[k]]
  ELSE c

ToLower(word) == [k \in 1..Len(word) |-> ToLowerChar(word[k])]

\* the least position p in from..Len(s) with s[p] = c, or 0 (strings.Index)
IndexFrom(s, from, c) ==
  IF \E p \in from..Len(s) : s[p] = c
  THEN CHOOSE p \in from..Len(s) : s[p] = c /\ \A r \in from..(p-1) : s[r] # c
  ELSE 0

\* the first position at or after `from` that holds no \s character (Len(s)+1 if none)
SkipSpace(s, from) ==
  CHOOSE p \in from..(Len(s)+1) :
    /\ \A r \in from..(p-1) : IsSpace(s[r])
    /\ (p <= Len(s) => ~IsSpace(s[p]))

\* the first position at or after `from` that holds no \w character (Len(s)+1 if none)
SkipWord(s, from) ==
  CHOOSE p \in from..(Len(s)+1) :
    /\ \A r \in from..(p-1) : IsWord(s[r])
    /\ (p <= Len(s) => ~IsWord(s[p]))

\* strings.TrimSpace
TrimSpace(s) ==
  LET a == SkipSpace(s, 1)
  IN IF a > Len(s) THEN <<>>
     ELSE LET b == CHOOSE p \in a..Len(s) :
                     ~IsSpace(s[p]) /\ \A r \in (p+1)..Len(s) : IsSpace(s[r])
          IN SubSeq(s, a, b)

\* strings.HasPrefix(s, "c") for a one-character prefix
HasPrefix(s, c) == Len(s) >= 1 /\ s[1] = c

\* strings.Count(s, "c") for a one-character pattern
Count(s, c) == Cardinality({p \in 1..Len(s) : s[p] = c})

RECURSIVE JoinFrom(_, _)
JoinFrom(names, k) ==
  IF k > Len(names) THEN <<>>
  ELSE IF k = Len(names) THEN names[k]
  ELSE names[k] \o <<",">> \o JoinFrom(names, k+1)

\* strings.Join(names, ",")
Join(names) == JoinFrom(names, 1)

----------------------------------------------------------------------------
(* isGraphQLKeyword (lines 336-359) *)

Keywords ==
  { <<"q","u","e","r","y">>,
    <<"m","u","t","a","t","i","o","n">>,
    <<"s","u","b","s","c","r","i","p","t","i","o","n">>,
    <<"f","r","a","g","m","e","n","t">>,
    <<"o","n">>,
    <<"t","r","u","e">>,
    <<"f","a","l","s","e">>,
    <<"n","u","l","l">>,
    <<"t","y","p","e">>,
    <<"i","n","p","u","t">>,
    <<"i","n","t","e","r","f","a","c","e">>,
    <<"u","n","i","o","n">>,
    <<"e","n","u","m">>,
    <<"s","c","a","l","a","r">>,
    <<"s","c","h","e","m","a">>,
    <<"e","x","t","e","n","d">>,
    <<"i","m","p","l","e","m","e","n","t","s">>,
    <<"d","i","r","e","c","t","i","v","e">> }

isGraphQLKeyword(word) == ToLower(word) \in Keywords

\* the test both tiers apply to a candidate name (lines 240, 271, 294)
AcceptField(fieldName) ==
  ~isGraphQLKeyword(fieldName) /\ ~HasPrefix(fieldName, "@")

----------------------------------------------------------------------------
(* removeComments (lines 329-334): every match of #[^\n]* is deleted *)

\* position p lies in a match of #[^\n]*: a "#" at or before it, and no line
\* break from that "#" up to p
InCommentMatch(s, p) ==
  \E h \in 1..p : s[h] = "#" /\ \A r \in h..p : s[r] # "\n"

IsKept(m) == m.kept

\* the characters of the marked text that are kept, in order
Kept(marked) ==
  LET left == SelectSeq(marked, IsKept)
  IN [k \in 1..Len(left) |-> left[k].char]

\* removeComments that leaves the text as it is
removeCommentsNot(query) == query

removeComments(query) ==
  Kept([p \in 1..Len(query) |->
          [char |-> query[p], kept |-> ~InCommentMatch(query, p)]])

----------------------------------------------------------------------------
(* Whitespace normalisation (lines 124-126) *)

\* every match of \s+ replaced by " ": the first character of a run of
\* whitespace becomes a space and the rest of the run goes
CollapseSpace(s) ==
  Kept([p \in 1..Len(s) |->
          [char |-> IF IsSpace(s[p]) THEN " " ELSE s[p],
           kept |-> ~IsSpace(s[p]) \/ p = 1 \/ ~IsSpace(s[p-1])]])

\* regexp \s+ replaced by " ", then strings.TrimSpace
NormalizeWhitespace(query) == TrimSpace(CollapseSpace(query))

----------------------------------------------------------------------------
(* extractBalancedBlock (lines 183-226) *)

\* the loop's locals before the first iteration (lines 191-193); closed is set
\* by the iteration that returns the block, and i is the index it returned at
ScanInit ==
  [braceCount |-> 0, inString |-> FALSE, escaped |-> FALSE, closed |-> FALSE, i |-> 0]

\* ScanStep without the string test of line 213
ScanStepInStrings(st, char) ==
  IF st.escaped THEN [st EXCEPT !.escaped = FALSE]
  ELSE IF char = "\\" THEN [st EXCEPT !.escaped = TRUE]
  ELSE IF char = "\"" THEN [st EXCEPT !.inString = ~st.inString]
  ELSE IF char = "{" THEN [st EXCEPT !.braceCount = st.braceCount + 1]
  ELSE IF char = "}"
       THEN [st EXCEPT !.braceCount = st.braceCount - 1,
                       !.closed = (st.braceCount - 1 = 0)]
  ELSE st

\* the body of the loop (lines 196-222) on character char
ScanStep(st, char) ==
  IF st.escaped THEN [st EXCEPT !.escaped = FALSE]
  ELSE IF char = "\\" THEN [st EXCEPT !.escaped = TRUE]
  ELSE IF char = "\"" THEN [st EXCEPT !.inString = ~st.inString]
  ELSE IF ~st.inString
       THEN IF char = "{" THEN [st EXCEPT !.braceCount = st.braceCount + 1]
            ELSE IF char = "}"
                 THEN [st EXCEPT !.braceCount = st.braceCount - 1,
                                 !.closed = (st.braceCount - 1 = 0)]
                 ELSE st
       ELSE st

\* iteration i of the loop: nothing is run once the function has returned
ScanIteration(query, st, i) ==
  IF st.closed THEN st ELSE [ScanStep(st, query[i]) EXCEPT !.i = i]

\* iterations lo..hi of the loop, run in order from the locals st
RECURSIVE ScanRange(_, _, _, _)
ScanRange(query, st, lo, hi) ==
  IF lo > hi THEN st
  ELSE IF lo = hi THEN ScanIteration(query, st, lo)
  ELSE LET mid == (lo + hi) \div 2
           half == ScanRange(query, st, lo, mid)
       IN IF half.closed THEN half ELSE ScanRange(query, half, mid + 1, hi)

extractBalancedBlock(query, startPos) ==
  LET start == IndexFrom(query, startPos, "{")
  IN IF start = 0 THEN <<>>
     ELSE LET last == ScanRange(query, ScanInit, start, Len(query))
          IN IF last.closed THEN SubSeq(query, start+1, last.i - 1) ELSE <<>>

----------------------------------------------------------------------------
(* findOperationBlocks (lines 147-180) *)

\* the text the pattern of line 158 is built from
OpTypeText(opType) ==
  IF opType = "query" THEN <<"q","u","e","r","y">>
  ELSE <<"m","u","t","a","t","i","o","n">>

\* (?i)\b<kw> at position p: a word boundary, then kw in either case
MatchKeywordAt(s, kw, p) ==
  /\ p + Len(kw) - 1 <= Len(s)
  /\ (p = 1 \/ ~IsWord(s[p-1]))
  /\ \A k \in 1..Len(kw) : ToLowerChar(s[p+k-1]) = kw[k]

\* (?i)\b<kw>\s+\w+[^{]*\{ matched at position p: the position of its final
\* brace, or 0 when it does not match there.  \s+ must take the whole run of
\* whitespace, the next character must be a word character, and [^{]* runs
\* to the first brace.
NamedMatchEnd(s, kw, p) ==
  IF ~MatchKeywordAt(s, kw, p) THEN 0
  ELSE LET a == p + Len(kw)
       IN IF a > Len(s) \/ ~IsSpace(s[a]) THEN 0
          ELSE LET b == SkipSpace(s, a)
               IN IF b > Len(s) \/ ~IsWord(s[b]) THEN 0
                  ELSE IndexFrom(s, b, "{")

\* FindAllStringIndex of the named pattern from position `from` on: the
\* start of every match, leftmost first and not overlapping
RECURSIVE NamedMatchesFrom(_, _, _)
NamedMatchesFrom(s, kw, from) ==
  IF \A p \in from..Len(s) : NamedMatchEnd(s, kw, p) = 0 THEN <<>>
  ELSE LET at == CHOOSE p \in from..Len(s) :
                   /\ NamedMatchEnd(s, kw, p) # 0
                   /\ \A r \in from..(p-1) : NamedMatchEnd(s, kw, r) = 0
       IN <<at>> \o NamedMatchesFrom(s, kw, NamedMatchEnd(s, kw, at) + 1)

\* FindAllStringIndex of ^\s*\{ (line 155): at most one match, at the start
AnonymousMatches(s) ==
  LET a == SkipSpace(s, 1)
  IN IF a <= Len(s) /\ s[a] = "{" THEN <<1>> ELSE <<>>

\* match[0] of every match of the opType's pattern (lines 153-161)
MatchStarts(query, opType) ==
  IF opType = "anonymous" THEN AnonymousMatches(query)
  ELSE NamedMatchesFrom(query, OpTypeText(opType), 1)

\* the loop of lines 162-168; a block is kept with the offset it was cut at
RECURSIVE BlocksOfMatches(_, _, _)
BlocksOfMatches(query, matches, k) ==
  IF k > Len(matches) THEN <<>>
  ELSE LET block == extractBalancedBlock(query, matches[k])
       IN (IF block # <<>> THEN <<[start |-> matches[k], text |-> block]>> ELSE <<>>)
          \o BlocksOfMatches(query, matches, k+1)

\* lines 171-176: the whole query is taken as a block when it starts with a
\* brace and no block has been found
SpecialCase(query, opType, blocks) ==
  IF opType = "anonymous" /\ Len(blocks) = 0 /\ HasPrefix(TrimSpace(query), "{")
  THEN Append(blocks, [start |-> 1, text |-> query])
  ELSE blocks

\* the loop of lines 150-177 from opTypes[k] on, blocks being those found so far
RECURSIVE FindBlocksFrom(_, _, _, _)
FindBlocksFrom(query, opTypes, k, blocks) ==
  IF k > Len(opTypes) THEN blocks
  ELSE FindBlocksFrom(query, opTypes, k+1,
         SpecialCase(query, opTypes[k],
           blocks \o BlocksOfMatches(query, MatchStarts(query, opTypes[k]), 1)))

findOperationBlocks(query, opTypes) == FindBlocksFrom(query, opTypes, 1, <<>>)

----------------------------------------------------------------------------
(* parseRootFields (lines 229-302) and simplifyToRootLevel (lines 305-327) *)

\* \s*\{[^}]*\} matched from position q: the position of its closing brace, or 0
BraceBodyEnd(s, q) ==
  LET b == SkipSpace(s, q)
  IN IF b > Len(s) \/ s[b] # "{" THEN 0 ELSE IndexFrom(s, b+1, "}")

\* ArgsEnd for a pattern without the argument group
ArgsEndNever(s, q) == 0

\* \s*\([^)]*\) matched from position q: the position after its ")", or 0
ArgsEnd(s, q) ==
  LET b == SkipSpace(s, q)
  IN IF b > Len(s) \/ s[b] # "(" THEN 0
     ELSE LET c == IndexFrom(s, b+1, ")")
          IN IF c = 0 THEN 0 ELSE c + 1

\* (\w+)(?:\s*\([^)]*\))?\s*\{[^}]*\} (line 234) matched at position p: the
\* position of its closing brace, or 0.  \w+ takes the whole run of word
\* characters; the argument group is taken when it matches.
RootFieldMatchEnd(s, p) ==
  IF ~IsWord(s[p]) THEN 0
  ELSE LET e == SkipWord(s, p)
           a == ArgsEnd(s, e)
       IN IF a # 0 THEN BraceBodyEnd(s, a) ELSE BraceBodyEnd(s, e)

\* FindAllStringSubmatch of line 235 from position `from` on: group 1 of
\* every match, leftmost first and not overlapping
RECURSIVE RootFieldMatchesFrom(_, _)
RootFieldMatchesFrom(s, from) ==
  IF \A p \in from..Len(s) : RootFieldMatchEnd(s, p) = 0 THEN <<>>
  ELSE LET at == CHOOSE p \in from..Len(s) :
                   /\ RootFieldMatchEnd(s, p) # 0
                   /\ \A r \in from..(p-1) : RootFieldMatchEnd(s, r) = 0
       IN <<SubSeq(s, at, SkipWord(s, at) - 1)>>
            \o RootFieldMatchesFrom(s, RootFieldMatchEnd(s, at) + 1)

\* first tier (lines 234-244)
PatternTier(block) == SelectSeq(RootFieldMatchesFrom(block, 1), AcceptField)

\* strings.Split(s, "\n") from position p on
RECURSIVE SplitFrom(_, _)
SplitFrom(s, p) ==
  LET n == IndexFrom(s, p, "\n")
  IN IF n = 0 THEN <<SubSeq(s, p, Len(s))>>
     ELSE <<SubSeq(s, p, n-1)>> \o SplitFrom(s, n+1)

\* the loop of lines 252-279 from lines[k] on
RECURSIVE LineScanFrom(_, _, _)
LineScanFrom(lines, k, braceLevel) ==
  IF k > Len(lines) THEN <<>>
  ELSE LET line == TrimSpace(lines[k])
       IN IF line = <<>> \/ HasPrefix(line, "#")
          THEN LineScanFrom(lines, k+1, braceLevel)
          ELSE LET fieldName == SubSeq(line, 1, SkipWord(line, 1) - 1)
                   here == IF braceLevel = 0 /\ IsWord(line[1]) /\ AcceptField(fieldName)
                           THEN <<fieldName>> ELSE <<>>
               IN here \o LineScanFrom(lines, k+1,
                                       braceLevel + Count(line, "{") - Count(line, "}"))

\* second tier (lines 247-280)
LineTier(block) == LineScanFrom(SplitFrom(block, 1), 1, 0)

\* braceLevel after the loop of lines 309-324 has run on block[1..p]
BraceLevelAfter(block, p) ==
  Cardinality({r \in 1..p : block[r] = "{"}) - Cardinality({r \in 1..p : block[r] = "}"})

\* an opening brace that takes the level to 1 and a closing brace that takes
\* it to 0 are written as a space; any other character is written at level 0
simplifyToRootLevel(block) ==
  Kept([p \in 1..Len(block) |->
          [char |-> IF block[p] \in {"{", "}"} THEN " " ELSE block[p],
           kept |-> IF block[p] = "{" THEN BraceLevelAfter(block, p) = 1
                    ELSE BraceLevelAfter(block, p) = 0]])

\* FindAllStringSubmatch of (\w+)(?:\s*\([^)]*\))? (lines 288-289): group 1 of
\* every match; a match takes the argument list after the word when there is one
RECURSIVE WordMatchesFrom(_, _)
WordMatchesFrom(s, from) ==
  IF \A p \in from..Len(s) : ~IsWord(s[p]) THEN <<>>
  ELSE LET at == CHOOSE p \in from..Len(s) :
                   IsWord(s[p]) /\ \A r \in from..(p-1) : ~IsWord(s[r])
           e == SkipWord(s, at)
           a == ArgsEnd(s, e)
       IN <<SubSeq(s, at, e-1)>> \o WordMatchesFrom(s, IF a # 0 THEN a ELSE e)

\* third tier (lines 283-299)
CollapseTier(block) ==
  SelectSeq(WordMatchesFrom(simplifyToRootLevel(block), 1), AcceptField)

\* the tiers in order: the first that finds a field decides (lines 247, 283)
FirstNonEmpty(first, second, third) ==
  IF Len(first) # 0 THEN first
  ELSE IF Len(second) # 0 THEN second ELSE third

parseRootFields(block) ==
  FirstNonEmpty(PatternTier(block), LineTier(block), CollapseTier(block))

----------------------------------------------------------------------------
(* extractRootFieldsFromOperation (lines 121-144), extractResourceNames (106-118) *)

\* OperationBlocks looking for the anonymous block under every operation type
OperationBlocksAnonymousToo(query, opType) ==
  findOperationBlocks(NormalizeWhitespace(query), <<opType, "anonymous">>)

\* lines 124-135: the blocks of one operation type
OperationBlocks(query, opType) ==
  LET normalized == NormalizeWhitespace(query)
  IN IF opType = "query"
     THEN findOperationBlocks(normalized, <<"query", "anonymous">>)
     ELSE IF opType = "mutation"
          THEN findOperationBlocks(normalized, <<"mutation">>)
          ELSE <<>>

\* lines 138-141: one call of parseRootFields per block, with what it returned
ParseBlocks(operationBlocks, opType) ==
  [k \in 1..Len(operationBlocks) |->
     [opType |-> opType,
      start  |-> operationBlocks[k].start,
      block  |-> operationBlocks[k].text,
      fields |-> parseRootFields(operationBlocks[k].text)]]

RootFieldCalls(query, opType) == ParseBlocks(OperationBlocks(query, opType), opType)

\* fields = append(fields, rootFields...) over the calls from k on (line 140)
RECURSIVE FieldsFrom(_, _)
FieldsFrom(calls, k) ==
  IF k > Len(calls) THEN <<>> ELSE calls[k].fields \o FieldsFrom(calls, k+1)

extractRootFieldsFromOperation(query, opType) ==
  FieldsFrom(RootFieldCalls(query, opType), 1)

\* the two returned sequences (line 117), and the calls of parseRootFields
\* that produced them
ResourceNames(queryCalls, mutationCalls) ==
  [queries   |-> FieldsFrom(queryCalls, 1),
   mutations |-> FieldsFrom(mutationCalls, 1),
   calls     |-> queryCalls \o mutationCalls]

\* lines 114-115 on the text without its comments
ExtractFromStripped(stripped) ==
  ResourceNames(RootFieldCalls(stripped, "query"), RootFieldCalls(stripped, "mutation"))

extractResourceNames(query) == ExtractFromStripped(removeComments(query))

----------------------------------------------------------------------------
(* New (lines 43-57) and ServeHTTP (lines 60-103) *)

\* CreateConfig (lines 20-25)
CreateConfig == [QueryHeader |-> "X-GraphQL-Queries", MutationHeader |-> "X-GraphQL-Mutations"]

\* New: an empty header name falls back to the default
New(config) ==
  [queryHeader    |-> IF config.QueryHeader = "" THEN "X-GraphQL-Queries"
                      ELSE config.QueryHeader,
   mutationHeader |-> IF config.MutationHeader = "" THEN "X-GraphQL-Mutations"
                      ELSE config.MutationHeader]

\* http.Header: a function from the names of the headers present to their
\* values (names are taken in canonical form, as Get and Set take them)
HeaderGet(header, name) == IF name \in DOMAIN header THEN header[name] ELSE <<>>

HeaderSet(header, name, value) ==
  [n \in DOMAIN header \cup {name} |-> IF n = name THEN value ELSE header[n]]

\* strings.Contains
Contains(s, sub) ==
  \E p \in 1..(Len(s) - Len(sub) + 1) : SubSeq(s, p, p + Len(sub) - 1) = sub

\* the Content-Type test of line 69
IsGraphQLContent(contentType) ==
  Contains(contentType, <<"a","p","p","l","i","c","a","t","i","o","n","/","j","s","o","n">>) \/ Contains(contentType, <<"a","p","p","l","i","c","a","t","i","o","n","/","g","r","a","p","h","q","l">>)

\* json.Unmarshal(body, &graphqlReq) (line 86).  A body is either the JSON
\* encoding of an envelope whose "query" member is body.text (enc = "json"),
\* or the bytes body.text themselves (enc = "raw").  Raw GraphQL text is
\* an object in JSON only when it is the empty object.
NotSpace(c) == ~IsSpace(c)

IsEmptyObject(text) == SelectSeq(text, NotSpace) = <<"{", "}">>

Unmarshal(body) ==
  IF body.enc = "json" THEN [err |-> FALSE, Query |-> body.text]
  ELSE IF IsEmptyObject(body.text) THEN [err |-> FALSE, Query |-> <<>>]
  ELSE [err |-> TRUE, Query |-> <<>>]

\* lines 85-89: graphqlReq.Query after decoding, the raw body when decoding fails
DecodeQuery(body) ==
  LET decoded == Unmarshal(body)
  IN IF decoded.err THEN body.text ELSE decoded.Query

\* lines 95-100: the headers of the forwarded request
SetHeaders(header, plugin, qs, ms) ==
  LET withQueries == IF Len(qs) > 0
                     THEN HeaderSet(header, plugin.queryHeader, Join(qs))
                     ELSE header
  IN IF Len(ms) > 0
     THEN HeaderSet(withQueries, plugin.mutationHeader, Join(ms))
     ELSE withQueries

\* lines 92-102 for the decoded text query and the names extracted from it
Extract(query, names) ==
  /\ graphqlReq' = query
  /\ queries' = names.queries
  /\ mutations' = names.mutations
  /\ parsed' = names.calls
  /\ fwd' = Append(fwd, [req EXCEPT !.header =
                           SetHeaders(req.header, g, names.queries, names.mutations)])
  /\ pc' = "extracted"

ServeHTTP ==
  /\ pc = "received"
  /\ IF \/ req.method # "POST"
        \/ ~IsGraphQLContent(HeaderGet(req.header, "Content-Type"))
        \/ req.readErr
     THEN /\ fwd' = Append(fwd, req)
          /\ pc' = "skipped"
          /\ UNCHANGED <<graphqlReq, queries, mutations, parsed>>
     ELSE Extract(DecodeQuery(req.body), extractResourceNames(DecodeQuery(req.body)))
  /\ UNCHANGED <<g, req>>
  /\ UNCHANGED balanceVars
  /\ UNCHANGED commentVars

----------------------------------------------------------------------------
(* Inputs: the documents and requests the handler is run on *)

\* identifiers of the pool that documents draw names from
MaxNames == 4
\* operations in a document of several operations
MaxOps == 2

NamePool == <<<<"u","s","e","r">>, <<"o","n">>, <<"f","2">>, <<"T","y","p","e">>, <<"c","r","e","a","t","e","T","h","i","n","g">>, <<"n","u","l","l">>>>

Names == {NamePool[k] : k \in 1..MaxNames}

\* the identifiers that are no reserved word in any case
FieldNames ==
  {n \in Names : \A k \in Keywords : [i \in 1..Len(n) |-> ToLowerChar(n[i])] # k}

OpNames == {<<"N","a","m","e">>, <<"M","u","t","a","t","i","o","n">>}

Layouts == {<<" ">>, <<"\n", " ", " ">>}

\* query Name { f1 { x } f2(arg: 1) { y } }
SingleQueryDoc(name, f1, f2, ws) ==
  <<"q","u","e","r","y">> \o ws \o name \o ws \o <<"{">> \o ws \o f1 \o ws \o <<"{"," ","x"," ","}">> \o ws
    \o f2 \o <<"(","a","r","g",":"," ","1",")">> \o ws \o <<"{"," ","y"," ","}">> \o ws \o <<"}">>

\* <head> { f(input: {a:1}) { id } }, for a head such as mutation
InputDoc(head, f, ws) ==
  head \o ws \o <<"{">> \o ws \o f \o <<"(","i","n","p","u","t",":"," ","{","a",":","1","}",")">> \o ws \o <<"{"," ","i","d"," ","}">> \o ws \o <<"}">>

\* { f { id } }
AnonymousDoc(f, ws) ==
  <<"{">> \o ws \o f \o ws \o <<"{"," ","i","d"," ","}">> \o ws \o <<"}">>

\* { f { id }    (the outer block is never closed)
UnterminatedDoc(f, ws) ==
  <<"{">> \o ws \o f \o ws \o <<"{"," ","i","d"," ","}">>

SimpleOps ==
  << <<"q","u","e","r","y"," ","A"," ","{"," ","x"," ","{"," ","n"," ","}"," ","}">>,
     <<"q","u","e","r","y"," ","B"," ","{"," ","x"," ","{"," ","n"," ","}"," ","y"," ","{"," ","n"," ","}"," ","}">>,
     <<"m","u","t","a","t","i","o","n"," ","M"," ","{"," ","m","k"," ","{"," ","i","d"," ","}"," ","}">>,
     <<"{"," ","a"," ","{"," ","n"," ","}"," ","}">> >>

RECURSIVE ConcatOps(_, _)
ConcatOps(picks, k) ==
  IF k > Len(picks) THEN <<>>
  ELSE IF k = Len(picks) THEN SimpleOps[picks[k]]
  ELSE SimpleOps[picks[k]] \o <<" ">> \o ConcatOps(picks, k+1)

\* every document of one to MaxOps of the simple operations
MultiDocs ==
  {ConcatOps(picks, 1) :
     picks \in UNION {[1..n -> 1..Len(SimpleOps)] : n \in 1..MaxOps}}

DirectiveDoc == <<"q","u","e","r","y"," ","Q"," ","{"," ","u","s","e","r"," ","@","i","n","c","l","u","d","e","(","i","f",":"," ","t","r","u","e",")"," ","{"," ","i","d"," ","}"," ","}">>
NestedDoc == <<"q","u","e","r","y"," ","Q"," ","{"," ","a"," ","{"," ","b"," ","{"," ","c"," ","}"," ","d"," ","{"," ","e"," ","}"," ","}"," ","}">>
EmptyBlockDoc == <<"{","}">>

SpecialDocs ==
  { DirectiveDoc,
    NestedDoc,
    EmptyBlockDoc,
    <<"q","u","e","r","y"," ","S"," ","{"," ","s","e","a","r","c","h","(","q",":"," ","\"","a","{","b","}","c","\"",")"," ","{"," ","r","e","s","u","l","t","s"," ","}"," ","}">>,
    <<"q","u","e","r","y"," ","S"," ","{"," ","s","(","q",":"," ","\"","a","\\","\"","}","\"",")"," ","{"," ","r"," ","}"," ","}">>,
    <<"q","u","e","r","y"," ","Q"," ","{"," ","i","d"," ","n","a","m","e"," ","}">>,
    <<"q","u","e","r","y"," ","Q"," ","{"," ",".",".",".","F"," ","i","d"," ","}">>,
    <<"#"," ","c"," ","{","\n","q","u","e","r","y"," ","Q"," ","{","\n"," "," ","#"," ","x","\n"," "," ","o","n"," ","{"," ","i","d"," ","}","\n"," "," ","u","s","e","r"," ","{"," ","i","d"," ","}","\n","}","\n">>,
    <<"q","u","e","r","y"," ","Q">>,
    <<>>,
    <<"Q","U","E","R","Y"," ","Q"," ","{"," ","u","s","e","r"," ","{"," ","i","d"," ","}"," ","}"," ","M","u","t","a","t","i","o","n"," ","M"," ","{"," ","m","k"," ","{"," ","i","d"," ","}"," ","}">>,
    <<"q","u","e","r","y"," ","Q"," ","{"," ","u","s","e","r"," ","{"," ","i","d"," ","}"," ","}"," ","m","u","t","a","t","i","o","n"," ","{"," ","m","k"," ","{"," ","i","d"," ","}"," ","}">> }

Documents ==
  {SingleQueryDoc(n, f1, f2, ws) : n \in OpNames, f1 \in Names, f2 \in Names, ws \in Layouts}
  \cup {InputDoc(h, f, ws) : h \in {<<"m","u","t","a","t","i","o","n">>, <<"m","u","t","a","t","i","o","n"," ","M">>, <<"q","u","e","r","y">>}, f \in Names, ws \in Layouts}
  \cup {AnonymousDoc(f, ws) : f \in Names, ws \in Layouts}
  \cup {UnterminatedDoc(f, ws) : f \in Names, ws \in Layouts}
  \cup MultiDocs
  \cup SpecialDocs

\* the documents that requests other than the plain POST carry
KeyDocs == {EmptyBlockDoc, <<"q","u","e","r","y"," ","Q">>, <<"q","u","e","r","y"," ","A"," ","{"," ","x"," ","{"," ","n"," ","}"," ","}">>, <<"m","u","t","a","t","i","o","n"," ","M"," ","{"," ","m","k"," ","{"," ","i","d"," ","}"," ","}">>}

ContentTypes == {<<"a","p","p","l","i","c","a","t","i","o","n","/","j","s","o","n">>, <<"a","p","p","l","i","c","a","t","i","o","n","/","g","r","a","p","h","q","l">>, <<"a","p","p","l","i","c","a","t","i","o","n","/","j","s","o","n",";"," ","c","h","a","r","s","e","t","=","u","t","f","-","8">>, <<"t","e","x","t","/","p","l","a","i","n">>}

Request(method, header, enc, text, readErr) ==
  [method |-> method, header |-> header,
   body |-> [enc |-> enc, text |-> text], readErr |-> readErr]

\* a POST of the raw document as application/json, carrying no other header
PlainRequests ==
  {Request("POST", [n \in {"Content-Type"} |-> <<"a","p","p","l","i","c","a","t","i","o","n","/","j","s","o","n">>], "raw", d, FALSE) :
     d \in Documents}

\* the headers a client may already have set on the request
IncomingHeaders(ct) ==
  { [n \in {"Content-Type"} |-> ct],
    [n \in {"Content-Type", "X-GraphQL-Queries"} |->
       IF n = "Content-Type" THEN ct ELSE <<"a","d","m","i","n">>],
    [n \in {"Content-Type", "X-GraphQL-Mutations"} |->
       IF n = "Content-Type" THEN ct ELSE <<"a","d","m","i","n">>],
    [n \in {"Accept"} |-> <<"*","/","*">>] }

OtherRequests ==
  {Request(m, h, enc, d, e) :
     m \in {"POST", "GET"},
     h \in UNION {IncomingHeaders(ct) : ct \in ContentTypes},
     enc \in {"raw", "json"},
     d \in KeyDocs,
     e \in BOOLEAN}

Configs ==
  { CreateConfig,
    [QueryHeader |-> "", MutationHeader |-> ""],
    [QueryHeader |-> "X-Resources-Read", MutationHeader |-> "X-Resources-Write"] }

\* the longest text extractBalancedBlock is run on by itself
MaxLen == 6

BalanceChars == {"{", "}", "\"", "\\", "a"}

BalanceTexts == UNION {[1..n -> BalanceChars] : n \in 0..MaxLen}

\* comment lines inserted into a document
MaxComments == 2

CommentBaseDocs ==
  { <<"q","u","e","r","y"," ","A"," ","{","\n"," "," ","x"," ","{"," ","n"," ","}","\n"," "," ","y","(","a","r","g",":"," ","1",")"," ","{"," ","n"," ","}","\n","}","\n">>,
    <<"{","\n"," "," ","v","i","e","w","e","r"," ","{"," ","i","d"," ","}","\n","}">>,
    <<"m","u","t","a","t","i","o","n"," ","M"," ","{","\n"," "," ","m","k","(","i","n","p","u","t",":"," ","{","a",":","1","}",")"," ","{"," ","i","d"," ","}","\n","}","\n","q","u","e","r","y"," ","B"," ","{"," ","x"," ","{"," ","n"," ","}"," ","}">>,
    <<"#"," ","l","e","a","d","\n","q","u","e","r","y"," ","Q"," ","{","\n"," "," ","u","s","e","r"," ","{"," ","i","d"," ","}"," ","#"," ","t","r","a","i","l","i","n","g","\n","}">>,
    <<"q","u","e","r","y"," ","Q"," ","{","\n"," "," ","i","d","\n"," "," ","n","a","m","e","\n","}">>,
    <<"{","\n"," "," ","v","i","e","w","e","r"," ","{"," ","i","d"," ","}","\n">> }

\* a comment line is a comment and the line break that ends it
CommentLines ==
  { <<"#"," ","c","\n">>, <<"#","q","u","e","r","y"," ","Z"," ","{"," ","z"," ","{"," ","n"," ","}"," ","}","\n">>, <<"#"," ","}"," ","\""," ","{","\n">> }

\* the positions a line may be inserted after: the start of the text and
\* every line break
LineBoundaries(doc) == {0} \cup {p \in 1..Len(doc) : doc[p] = "\n"}

InsertLine(doc, b, line) == SubSeq(doc, 1, b) \o line \o SubSeq(doc, b+1, Len(doc))

\* doc with at most n comment lines inserted at line boundaries
RECURSIVE CommentVariants(_, _)
CommentVariants(doc, n) ==
  IF n = 0 THEN {doc}
  ELSE {doc} \cup UNION { CommentVariants(InsertLine(doc, b, line), n - 1) :
                            b \in LineBoundaries(doc), line \in CommentLines }

BalanceIdle ==
  /\ bquery = <<>> /\ bstartPos = 1 /\ bstart = 0 /\ bi = 0
  /\ bscan = ScanInit /\ bresult = <<>> /\ bpc = "idle"

CommentIdle ==
  /\ plainDoc = <<>> /\ commentDoc = <<>>
  /\ plainRes = <<>> /\ commentRes = <<>> /\ cpc = "idle"

HttpIdle ==
  /\ g = New(CreateConfig)
  /\ req = Request("GET", <<>>, "raw", <<>>, FALSE)
  /\ fwd = <<>> /\ graphqlReq = <<>> /\ queries = <<>> /\ mutations = <<>>
  /\ parsed = <<>> /\ pc = "idle"

Init ==
  /\ \E config \in Configs :
       /\ g = New(config)
       /\ req \in (IF config = CreateConfig THEN PlainRequests ELSE {}) \cup OtherRequests
  /\ fwd = <<>>
  /\ graphqlReq = <<>>
  /\ queries = <<>>
  /\ mutations = <<>>
  /\ parsed = <<>>
  /\ pc = "received"
  /\ BalanceIdle
  /\ CommentIdle

Next == ServeHTTP

Spec == Init /\ [][Next]_vars

----------------------------------------------------------------------------
(* extractBalancedBlock run by itself, one loop iteration at a time *)

BalanceInit ==
  /\ bquery \in BalanceTexts
  /\ bstartPos \in 1..(Len(bquery) + 1)
  /\ bstart = 0
  /\ bi = 0
  /\ bscan = ScanInit
  /\ bresult = <<>>
  /\ bpc = "find"
  /\ HttpIdle
  /\ CommentIdle

\* lines 185-193: the first opening brace at or after startPos
FindBrace ==
  /\ bpc = "find"
  /\ IF IndexFrom(bquery, bstartPos, "{") = 0
     THEN /\ bresult' = <<>>
          /\ bpc' = "done"
          /\ UNCHANGED <<bstart, bi, bscan>>
     ELSE /\ bstart' = IndexFrom(bquery, bstartPos, "{")
          /\ bi' = IndexFrom(bquery, bstartPos, "{")
          /\ bscan' = ScanInit
          /\ bpc' = "scan"
          /\ UNCHANGED bresult
  /\ UNCHANGED <<bquery, bstartPos>>
  /\ UNCHANGED httpVars
  /\ UNCHANGED commentVars

\* lines 195-223: one iteration of the loop
ScanChar ==
  /\ bpc = "scan"
  /\ bi <= Len(bquery)
  /\ bscan' = ScanIteration(bquery, bscan, bi)
  /\ IF bscan'.closed
     THEN /\ bresult' = SubSeq(bquery, bstart + 1, bi - 1)
          /\ bpc' = "done"
          /\ UNCHANGED bi
     ELSE /\ bi' = bi + 1
          /\ UNCHANGED <<bresult, bpc>>
  /\ UNCHANGED <<bquery, bstartPos, bstart>>
  /\ UNCHANGED httpVars
  /\ UNCHANGED commentVars

\* line 225: the text ended before the block was closed
ScanEnd ==
  /\ bpc = "scan"
  /\ bi > Len(bquery)
  /\ bresult' = <<>>
  /\ bpc' = "done"
  /\ UNCHANGED <<bquery, bstartPos, bstart, bi, bscan>>
  /\ UNCHANGED httpVars
  /\ UNCHANGED commentVars

BalanceNext == FindBrace \/ ScanChar \/ ScanEnd

SpecBalance == BalanceInit /\ [][BalanceNext]_vars

----------------------------------------------------------------------------
(* extractResourceNames run on a document and on the same document with
   comment lines inserted *)

CommentInit ==
  /\ plainDoc \in CommentBaseDocs
  /\ commentDoc \in CommentVariants(plainDoc, MaxComments)
  /\ plainRes = <<>>
  /\ commentRes = <<>>
  /\ cpc = "plain"
  /\ HttpIdle
  /\ BalanceIdle

\* the two sequences extractResourceNames returns (line 117)
Returned(names) == <<names.queries, names.mutations>>

ExtractPlain ==
  /\ cpc = "plain"
  /\ plainRes' = Returned(extractResourceNames(plainDoc))
  /\ cpc' = "commented"
  /\ UNCHANGED <<plainDoc, commentDoc, commentRes>>
  /\ UNCHANGED httpVars
  /\ UNCHANGED balanceVars

ExtractCommented ==
  /\ cpc = "commented"
  /\ commentRes' = Returned(extractResourceNames(commentDoc))
  /\ cpc' = "done"
  /\ UNCHANGED <<plainDoc, commentDoc, plainRes>>
  /\ UNCHANGED httpVars
  /\ UNCHANGED balanceVars

CommentNext == ExtractPlain \/ ExtractCommented

SpecComments == CommentInit /\ [][CommentNext]_vars

----------------------------------------------------------------------------
(* The reading of a text that the properties are stated against: which
   characters are skipped after a backslash, which are inside a string, and
   the nesting depth after each character, scanning from position s. *)

\* the number of backslashes that stand directly before position p, from s on
BackslashRun(t, s, p) ==
  CHOOSE k \in 0..(p - s) :
    /\ \A j \in 1..k : t[p-j] = "\\"
    /\ (k = p - s \/ t[p-k-1] # "\\")

SkippedFrom(t, s) == [p \in s..(Len(t) + 1) |-> BackslashRun(t, s, p) % 2 = 1]

InStringFrom(t, s, skipped) ==
  [p \in s..(Len(t) + 1) |->
     Cardinality({r \in s..(p-1) : t[r] = "\"" /\ ~skipped[r]}) % 2 = 1]

\* the positions of the braces c that count: not skipped, not inside a string
CountedBraces(t, s, skipped, inString, c) ==
  {p \in s..Len(t) : t[p] = c /\ ~skipped[p] /\ ~inString[p]}

DepthFrom(t, s, opens, closes) ==
  [p \in (s-1)..Len(t) |->
     Cardinality({r \in opens : r <= p}) - Cardinality({r \in closes : r <= p})]

\* the closing brace at which the depth first returns to zero, 0 when none does
FirstClose(closes, depth) ==
  IF \A p \in closes : depth[p] # 0 THEN 0
  ELSE CHOOSE p \in closes : depth[p] = 0 /\ \A r \in closes : depth[r] = 0 => p <= r

ReadingOf(skipped, inString, closes, depth) ==
  [skipped |-> skipped, inString |-> inString, depth |-> depth,
   close |-> FirstClose(closes, depth)]

ReadingWith(t, s, skipped, inString) ==
  ReadingOf(skipped, inString, CountedBraces(t, s, skipped, inString, "}"),
            DepthFrom(t, s, CountedBraces(t, s, skipped, inString, "{"),
                            CountedBraces(t, s, skipped, inString, "}")))

ReadingSkipping(t, s, skipped) == ReadingWith(t, s, skipped, InStringFrom(t, s, skipped))

Reading(t, s) == ReadingSkipping(t, s, SkippedFrom(t, s))

\* the first opening brace at or after startPos, 0 when there is none
FirstBrace(t, startPos) ==
  IF \A p \in startPos..Len(t) : t[p] # "{" THEN 0
  ELSE CHOOSE p \in startPos..Len(t) :
         t[p] = "{" /\ \A r \in startPos..(p-1) : t[r] # "{"

\* the text strictly between the brace at s and the brace that closes it
BlockBetween(t, s, reading) ==
  IF reading.close = 0 THEN <<>> ELSE SubSeq(t, s + 1, reading.close - 1)

BalancedBlockOf(t, startPos) ==
  IF FirstBrace(t, startPos) = 0 THEN <<>>
  ELSE BlockBetween(t, FirstBrace(t, startPos), Reading(t, FirstBrace(t, startPos)))

\* the scan is about to read position i in the state the reading gives
ScanAgrees(st, i, reading) ==
  /\ st.escaped = reading.skipped[i]
  /\ st.inString = reading.inString[i]
  /\ st.braceCount = reading.depth[i-1]

\* every brace of the text is closed, and none is closed before it is opened
DepthsBalanced(t, depth) ==
  /\ depth[Len(t)] = 0
  /\ \A p \in 1..Len(t) : depth[p] >= 0

Balanced(t) == DepthsBalanced(t, Reading(t, 1).depth)

\* name stands as a whole word at position p of t
WordAt(t, p, name) ==
  /\ p + Len(name) - 1 <= Len(t)
  /\ SubSeq(t, p, p + Len(name) - 1) = name
  /\ (p = 1 \/ ~IsWord(t[p-1]))
  /\ (p + Len(name) > Len(t) \/ ~IsWord(t[p + Len(name)]))

\* name occurs in t outside every nested selection
OccursAtDepthZero(t, depth, name) ==
  \E p \in 1..Len(t) : WordAt(t, p, name) /\ depth[p] = 0

AllAtDepthZero(t, depth, names) ==
  \A k \in 1..Len(names) : OccursAtDepthZero(t, depth, names[k])

\* the identifiers written after an @ in doc
DirectiveNames(doc) ==
  {SubSeq(doc, p + 1, SkipWord(doc, p + 1) - 1) : p \in {r \in 1..Len(doc) : doc[r] = "@"}}

Elements(names) == {names[k] : k \in 1..Len(names)}

\* the calls of parseRootFields for one operation type, ordered by the
\* place of their operation in the document
InDocumentOrder(calls) ==
  [k \in 1..Len(calls) |->
     calls[CHOOSE j \in 1..Len(calls) :
             Cardinality({i \in 1..Len(calls) : calls[i].start < calls[j].start}) = k - 1]]

IsQueryCall(call) == call.opType = "query"

IsMutationCall(call) == call.opType = "mutation"

\* the names the calls return, their operations taken in document order
FieldsInDocumentOrder(calls) == FieldsFrom(InDocumentOrder(calls), 1)

----------------------------------------------------------------------------
(* Properties of the handler (specification Spec) *)

\* C1: an operation written with its keyword and no name is found: for
\* mutation { f(input: {a:1}) { id } } with f no reserved word, the query
\* sequence is empty and the mutation sequence is [f].
UnnamedMutationFound ==
  pc = "extracted" =>
    \A f \in FieldNames, ws \in Layouts :
      graphqlReq = InputDoc(<<"m","u","t","a","t","i","o","n">>, f, ws) =>
        queries = <<>> /\ mutations = <<f>>

\* the handler has run on mutation { user(input: {a:1}) { id } } and has
\* returned no name at all
UnnamedMutationMissed ==
  /\ pc = "extracted"
  /\ graphqlReq = InputDoc(<<"m","u","t","a","t","i","o","n">>, <<"u","s","e","r">>, <<" ">>)
  /\ queries = <<>>
  /\ mutations = <<>>

\* C2: no returned name is a reserved word in any case, and none is the
\* identifier of an @name directive of the document.
NoKeywordOrDirective ==
  pc = "extracted" =>
    \A name \in Elements(queries) \cup Elements(mutations) :
      /\ ToLower(name) \notin Keywords
      /\ name \notin DirectiveNames(graphqlReq)

\* the handler has run on the document with @include and has returned include
DirectiveReturned ==
  /\ pc = "extracted"
  /\ graphqlReq = DirectiveDoc
  /\ queries = <<<<"i","n","c","l","u","d","e">>>>

\* C3: each sequence is the concatenation of the root fields of the operations
\* of its type, in the order the operations stand in the document, duplicates
\* kept; query A { x { n } } query B { x { n } y { n } } gives [x, x, y].
DocumentOrder ==
  pc = "extracted" =>
    /\ queries = FieldsInDocumentOrder(SelectSeq(parsed, IsQueryCall))
    /\ mutations = FieldsInDocumentOrder(SelectSeq(parsed, IsMutationCall))
    /\ graphqlReq = <<"q","u","e","r","y"," ","A"," ","{"," ","x"," ","{"," ","n"," ","}"," ","}"," ","q","u","e","r","y"," ","B"," ","{"," ","x"," ","{"," ","n"," ","}"," ","y"," ","{"," ","n"," ","}"," ","}">>
         => queries = <<<<"x">>, <<"x">>, <<"y">>>>

\* the handler has run on an anonymous query followed by a named one and
\* has returned the named query's field first
NamedBeforeAnonymous ==
  /\ pc = "extracted"
  /\ graphqlReq = <<"{"," ","a"," ","{"," ","n"," ","}"," ","}"," ","q","u","e","r","y"," ","B"," ","{"," ","x"," ","{"," ","n"," ","}"," ","y"," ","{"," ","n"," ","}"," ","}">>
  /\ queries = <<<<"x">>, <<"y">>, <<"a">>>>

\* C4: for query Name { f1 { x } f2(arg: 1) { y } } with f1 and f2 no reserved
\* words, the query sequence is [f1, f2] and the mutation sequence is empty.
NamedQueryRootFields ==
  pc = "extracted" =>
    \A name \in OpNames, f1 \in FieldNames, f2 \in FieldNames, ws \in Layouts :
      graphqlReq = SingleQueryDoc(name, f1, f2, ws) =>
        queries = <<f1, f2>> /\ mutations = <<>>

NamedQueryExtracted ==
  /\ pc = "extracted"
  /\ graphqlReq = SingleQueryDoc(<<"N","a","m","e">>, <<"u","s","e","r">>, <<"f","2">>, <<"\n", " ", " ">>)
  /\ queries = <<<<"u","s","e","r">>, <<"f","2">>>>
  /\ mutations = <<>>

\* C5: a document { f { id } } with f no reserved word is an anonymous query:
\* the query sequence is [f], and the mutation sequence is empty.
AnonymousQueryRootFields ==
  pc = "extracted" =>
    \A f \in FieldNames, ws \in Layouts :
      graphqlReq = AnonymousDoc(f, ws) =>
        queries = <<f>> /\ mutations = <<>>

AnonymousQueryExtracted ==
  /\ pc = "extracted"
  /\ graphqlReq = AnonymousDoc(<<"u","s","e","r">>, <<" ">>)
  /\ queries = <<<<"u","s","e","r">>>>
  /\ mutations = <<>>

\* C7: the request handed on carries the query header, with the comma-joined
\* query sequence, exactly when that sequence is not empty, whatever headers
\* came in; likewise the mutation header.
HeadersFollowSequences ==
  pc = "extracted" =>
    /\ Len(fwd) = 1
    /\ IF Len(queries) > 0
       THEN HeaderGet(fwd[1].header, g.queryHeader) = Join(queries)
       ELSE g.queryHeader \notin DOMAIN fwd[1].header
    /\ IF Len(mutations) > 0
       THEN HeaderGet(fwd[1].header, g.mutationHeader) = Join(mutations)
       ELSE g.mutationHeader \notin DOMAIN fwd[1].header

\* a request that came in with a query header and holds no query is handed
\* on with that header
IncomingHeaderKept ==
  /\ pc = "extracted"
  /\ queries = <<>>
  /\ g.queryHeader \in DOMAIN req.header
  /\ Len(fwd) = 1
  /\ HeaderGet(fwd[1].header, g.queryHeader) = <<"a","d","m","i","n">>

\* C8: for a balanced block passed to parseRootFields, every returned name
\* occurs at depth 0 of the block; d of a { b { c } d { e } } is not returned.
OnlyDepthZeroFields ==
  \A k \in 1..Len(parsed) :
    Balanced(parsed[k].block) =>
      AllAtDepthZero(parsed[k].block, Reading(parsed[k].block, 1).depth, parsed[k].fields)

\* parseRootFields has returned d for the block of the nested document
NestedFieldReturned ==
  /\ pc = "extracted"
  /\ graphqlReq = NestedDoc
  /\ Len(parsed) = 1
  /\ Balanced(parsed[1].block)
  /\ parsed[1].fields = <<<<"a">>, <<"d">>>>

\* C9: every block handed to parseRootFields has balanced braces, and a
\* document whose only operation is never closed gives two empty sequences.
BlocksBalanced ==
  /\ \A k \in 1..Len(parsed) : Balanced(parsed[k].block)
  /\ pc = "extracted" =>
       \A f \in FieldNames, ws \in Layouts :
         graphqlReq = UnterminatedDoc(f, ws) => queries = <<>> /\ mutations = <<>>

\* parseRootFields has been handed the whole of { user { id }
UnbalancedBlockParsed ==
  /\ pc = "extracted"
  /\ graphqlReq = UnterminatedDoc(<<"u","s","e","r">>, <<" ">>)
  /\ Len(parsed) = 1
  /\ parsed[1].block = graphqlReq
  /\ queries = <<<<"u","s","e","r">>>>

----------------------------------------------------------------------------
(* Property of comment removal (specification SpecComments) *)

\* C6: a document with whole comment lines inserted at line boundaries gives
\* the same two sequences as the document without them.
CommentInsensitive ==
  cpc = "done" => commentRes = plainRes

\* a comment line holding a whole operation has been inserted inside the block
CommentInsideBlockIgnored ==
  /\ cpc = "done"
  /\ plainDoc = <<"{","\n"," "," ","v","i","e","w","e","r"," ","{"," ","i","d"," ","}","\n","}">>
  /\ commentDoc = <<"{","\n","#","q","u","e","r","y"," ","Z"," ","{"," ","z"," ","{"," ","n"," ","}"," ","}","\n"," "," ","v","i","e","w","e","r"," ","{"," ","i","d"," ","}","\n","}">>
  /\ commentRes = << <<<<"v","i","e","w","e","r">>>>, <<>> >>

----------------------------------------------------------------------------
(* Property of the brace balancer (specification SpecBalance) *)

\* C10: the scan is a machine over skipped, in-string and normal characters
\* with a nesting counter that only braces outside strings change; the
\* counter is never negative; the result is the text strictly between the
\* first opening brace at or after the offset and the brace at which the
\* counter first returns to zero, and is empty when there is no such brace.
BalancerCorrect ==
  /\ bscan.braceCount >= 0
  /\ bpc = "scan" => ScanAgrees(bscan, bi, Reading(bquery, bstart))
  /\ bpc = "done" => bresult = BalancedBlockOf(bquery, bstartPos)

\* a block whose string holds a closing brace has been returned whole
StringBraceSkipped ==
  /\ bpc = "done"
  /\ bquery = <<"{", "\"", "}", "\"", "}">>
  /\ bstartPos = 1
  /\ bresult = <<"\"", "}", "\"">>


====
